---- MODULE Spec2Model ----
(***************************************************************************)
(* Watch factory of ovn-kubernetes (go-controller/pkg/factory/factory.go). *)
(*                                                                         *)
(* One informer is modelled together with its handler registry, its        *)
(* reader/writer lock, its event queues and the goroutines that touch      *)
(* them: the shared informer's notification goroutine ("tr"), one          *)
(* processEvents worker per event queue ("w"), the application goroutines  *)
(* that call addHandler/removeHandler ("app"), the goroutine spawned by    *)
(* every successful removeHandler ("rm") and the goroutine NewWatchFactory *)
(* spawns to shut the informers down ("sh").  The informer is either a     *)
(* plain one (newInformer: events are fanned out under the write lock) or  *)
(* a queued one (newQueuedInformer: events go through the queues); which   *)
(* one is fixed by the initial state.                                      *)
(***************************************************************************)
EXTENDS Integers, Sequences, FiniteSets, TLC

\* ------------------------------------------------------------- bounds
\* the notifications of a run, by kind of informer
MaxDirectEvents == 2
MaxQueuedEvents == 3
\* the handlers registered in a run, by kind of informer
MaxDirectHandlers == 2
MaxQueuedHandlers == 1
\* stopChan is closed only in runs of at most so many notifications and
\* handlers
MaxStopEvents == 2
MaxStopHandlers == 1
\* a call returns an error only in runs of at most so many notifications and
\* handlers
MaxErrorEvents == 1
MaxErrorHandlers == 1
\* the notifications the shared informer has queued and not yet handed over
MaxLag == 1
\* the notifications with an object of another type in a run, and the
\* notifications and handlers of a run that has one
MaxBadEvents == 1
MaxBadRunEvents == 2
MaxBadRunHandlers == 1

\* ---------------------------------------------------- program constants
numEventQueues == 10
QueueCap == 1
handlerAlive == 0
handlerDead == 1
addEvent == 0
updateEvent == 1
deleteEvent == 2

\* ------------------------------------------------------------ objects
\* Names and namespaces are byte strings, as the hash reads them.
NsA == <<97>>
NsB == <<98>>
NoNs == <<>>
NoSel == "nosel"

Objs == {"o1", "o2"}

ObjNamespace(o) == IF o = "o1" THEN NsA ELSE NsB

ObjName(o) == IF o = "o1" THEN <<120>> ELSE <<121>>

ObjLabels(o) == IF o = "o1" THEN {} ELSE {"x"}

EventKinds == {addEvent, updateEvent, deleteEvent}

\* ----------------------------------------------------- FNV-1, 32 bits
\* A 32-bit word is kept as two 16-bit halves <<hi, lo>>.
RECURSIVE Xor(_, _)
Xor(a, b) ==
    IF a = 0 /\ b = 0 THEN 0
    ELSE (((a % 2) + (b % 2)) % 2) + (2 * Xor(a \div 2, b \div 2))

\* hash * 16777619 (0x01000193) modulo 2^32
FnvMul(w) ==
    LET lo == w[2] * 403
        hi == (w[1] * 403) + (w[2] * 256) + (lo \div 65536)
    IN  <<hi % 65536, lo % 65536>>

FnvByte(w, c) ==
    LET m == FnvMul(w) IN <<m[1], Xor(m[2], c)>>

RECURSIVE FnvWrite(_, _)
FnvWrite(w, bytes) ==
    IF bytes = <<>> THEN w
    ELSE FnvWrite(FnvByte(w, Head(bytes)), Tail(bytes))

\* offset basis 2166136261 = 0x811C9DC5
FnvNew32 == <<33052, 40389>>

\* (hi * 2^16 + lo) % n, computed on the halves
WordMod(w, n) == (((w[1] % n) * (65536 % n)) + (w[2] % n)) % n

\* A faulty choice of queue, by the kind of the event and not by the object
QueueIdxByKind(o, kind) == ((kind % 2) * 4) + 5

\* enqueueEvent, lines 185-191: the queue of an object
QueueIdx(o, kind) ==
    LET h0 == FnvNew32
        h1 == IF ObjNamespace(o) # <<>>
              THEN FnvWrite(FnvWrite(h0, ObjNamespace(o)), <<47>>)
              ELSE h0
        h2 == FnvWrite(h1, ObjName(o))
    IN  WordMod(h2, numEventQueues)

Queues == 0 .. (numEventQueues - 1)

\* The queues some object of the model hashes to; the workers of the other
\* queues never receive an event.
UsedQueues == {QueueIdx(o, k) : o \in Objs, k \in EventKinds}

\* The indices of the notifications of a run
EventIds == 1 .. (MaxQueuedEvents + MaxDirectEvents)

\* ------------------------------------------------------------- filters
Filters ==
    { [ns |-> NoNs, sel |-> NoSel],
      [ns |-> NsA, sel |-> NoSel],
      [ns |-> NoNs, sel |-> "x"] }

\* A faulty filter, which ignores the label selector
FilterFuncNoSel(f, o) ==
    IF f.ns = NoNs /\ f.sel = NoSel THEN TRUE
    ELSE IF f.ns # NoNs /\ ObjNamespace(o) # f.ns THEN FALSE
    ELSE TRUE

\* WatchFactory.addHandler, lines 410-427
FilterFunc(f, o) ==
    IF f.ns = NoNs /\ f.sel = NoSel THEN TRUE
    ELSE IF f.ns # NoNs /\ ObjNamespace(o) # f.ns THEN FALSE
    ELSE IF f.sel # NoSel /\ ~(f.sel \in ObjLabels(o)) THEN FALSE
    ELSE TRUE


\* ------------------------------------------------------------ goroutines
Tr == <<"tr", 0>>
W(s) == <<"w", s>>
App == <<"app", 0>>
Rm(h) == <<"rm", h>>
Sh == <<"sh", 0>>
NoThread == <<"none", 0>>

Workers == {W(s) : s \in UsedQueues}
Deliverers == {Tr} \cup Workers
Callers == {App} \cup Deliverers
HandlerIds ==
    1 .. (IF MaxDirectHandlers > MaxQueuedHandlers
          THEN MaxDirectHandlers ELSE MaxQueuedHandlers)

NoFilter == [ns |-> NoNs, sel |-> NoSel]
RegIdle == [pc |-> "idle", h |-> 0, left |-> {}]

\* The object types callers name: the one of the informer of the model, and
\* one NewWatchFactory has made no informer for
OwnKind == "own"
NoKind == "unconfigured"

\* The type of an object that is not the informer's
OtherType == "other"

\* A faulty check, which takes every object for one of the informer's type
TypeOkAlways(e) == TRUE

\* forEachHandler, lines 99-103, getObjectMeta, lines 369-397, and
\* ensureObjectOnDelete, lines 204-218: the object of the notification (for a
\* delete, the object in the DeletedFinalStateUnknown) is of i.oType
TypeOk(e) == e.typ = OwnKind

\* A faulty lookup, which finds an informer for every type
KnownKindAny(k) == TRUE

\* WatchFactory.addHandler, lines 400-403: inf, ok := wf.informers[objType]
KnownKind(k) == k = OwnKind

\* What a caller of addHandler passes: a filter, and whether processExisting
\* is given
RegInputs(h) ==
    IF h = 1
    THEN {in \in [f : Filters, pe : BOOLEAN] : in.pe \/ in.f = NoFilter}
    ELSE {[f |-> NoFilter, pe |-> TRUE]}

\* What an application goroutine passes to addHandler
AppInputs(h) ==
    {[k |-> OwnKind, f |-> in.f, pe |-> in.pe] : in \in RegInputs(h)}
    \cup {[k |-> NoKind, f |-> NoFilter, pe |-> TRUE]}

VARIABLES
    mode,            \* "direct" (newInformer) or "queued" (newQueuedInformer)
    stopped,         \* stopChan is closed
    synced,          \* what WaitForCacheSync reported for the informer
    store,           \* inf.inf.GetStore(): the objects of the mirror
    stream,          \* the notifications of the shared informer, in order
    tpos,            \* how many of them its goroutine has handed over
    handlers,        \* informer.handlers: the ids in the map
    tombstone,       \* Handler.tombstone of every handler
    hfilter,         \* the FilterFunc built for every handler
    handlerCounter,  \* WatchFactory.handlerCounter
    wlock,           \* the goroutine that holds or has asked for i.Lock()
    readers,         \* the goroutines that hold i.RLock()
    events,          \* informer.events: the buffered events of every queue
    closed,          \* shutdown has closed the queues and set them to nil
    pc,              \* where every delivering goroutine is
    cur,             \* the notification it delivers (an index of stream)
    todo,            \* the handlers it has still to call for it
    hcur,            \* the handler whose OnAdd/OnUpdate/OnDelete it is in
    reg,             \* the addHandler call of every caller
    removing,        \* the removal goroutines that have not yet run
    shpc,            \* the shutdown goroutine: "none", "wait", "lock", "done"
    got,             \* history: the notifications a handler's callbacks got
    synth,           \* history: the synthetic adds of a handler, by object
    flags,           \* history: what was observed of the callbacks' order
    owed,            \* history: <<n, h>>, h was alive as direct round n ended
    returned,        \* history: the handlers addHandler has returned
    removal,         \* history: the removeHandler call that returned nil
    existing,        \* history: what processExisting of a handler was given
    atReturn,        \* history: the handlers alive as addHandler returned them
    deleted,         \* history: who deleted each handler from the map
    errors,          \* history: the errors returned to callers, by handler
    spawned,         \* history: the removal goroutines started, by handler
    misdirected,     \* history: the handlers killed through another informer
    hkind,           \* history: the type each handler was registered for
    routed,          \* history: the queues each object's events were sent to
    accepted,        \* history: how often each notification was put in a queue
    received,        \* history: the notifications the workers took from a queue
    closes           \* history: how often shutdown has closed the queues

vars ==
    << mode, stopped, synced, store, stream, tpos, handlers, tombstone, hfilter,
       handlerCounter, wlock, readers, events, closed, pc, cur, todo, hcur,
       reg, removing, shpc, got, synth, flags, owed, returned, removal,
       existing, atReturn, deleted, errors, spawned, misdirected,
       hkind, routed, accepted, received, closes >>

envVars == <<mode, stopped, synced, store, stream>>
lockVars == <<wlock, readers>>
queueVars == <<events, closed>>
delivVars == <<pc, cur, todo, hcur>>
handlerVars == <<handlers, tombstone, removing, removal, deleted>>
regVars == <<reg, handlerCounter, hfilter, existing, returned, atReturn>>
histVars == <<got, synth, flags, owed>>
callVars == <<errors, spawned, misdirected, hkind>>
flowVars == <<accepted, received, closes>>
auditVars == <<callVars, routed, flowVars>>

\* the bounds of the run
\* a call has returned an error or named the wrong informer
Misused == errors # {} \/ misdirected # {}

\* the notifications of the stream with an object of another type
BadEvents == {n \in 1 .. Len(stream) : stream[n].typ # OwnKind}

Min(a, b) == IF a < b THEN a ELSE b
MaxEvents ==
    Min(Min(IF mode = "direct" THEN MaxDirectEvents ELSE MaxQueuedEvents,
            IF Misused THEN MaxErrorEvents
            ELSE MaxQueuedEvents + MaxDirectEvents),
        IF BadEvents # {} THEN MaxBadRunEvents
        ELSE MaxQueuedEvents + MaxDirectEvents)
MaxHandlers ==
    Min(Min(IF stopped THEN MaxStopHandlers
            ELSE IF mode = "direct" THEN MaxDirectHandlers
            ELSE MaxQueuedHandlers,
            IF Misused THEN MaxErrorHandlers
            ELSE MaxQueuedHandlers + MaxDirectHandlers),
        IF BadEvents # {} THEN MaxBadRunHandlers
        ELSE MaxQueuedHandlers + MaxDirectHandlers)

\* whether a call that returns an error is within the bounds of the run
ErrorInBounds ==
    /\ BadEvents = {}
    /\ Len(stream) <= MaxErrorEvents
    /\ handlerCounter <= MaxErrorHandlers

\* A faulty NewWatchFactory, which returns the factory whatever the sync
FactoryReturnedAlways == TRUE

\* NewWatchFactory, lines 351-355 and 366: wf is returned unless an informer
\* has not synced, and then nil and an error are
FactoryReturned == synced

\* NewWatchFactory, lines 337-366: the informers are built and started, the
\* workers of a queued informer wait for events, no handler is registered;
\* the goroutine of lines 357-364 is started only past the loop of lines
\* 351-355.
Init ==
    /\ mode \in {"direct", "queued"}
    /\ stopped = FALSE
    /\ synced \in BOOLEAN
    /\ store = {"o1"}
    /\ stream = <<>>
    /\ tpos = 0
    /\ handlers = {}
    /\ tombstone = [h \in HandlerIds |-> handlerAlive]
    /\ hfilter = [h \in HandlerIds |-> NoFilter]
    /\ handlerCounter = 0
    /\ wlock = NoThread
    /\ readers = {}
    /\ events = [s \in Queues |-> <<>>]
    /\ closed = FALSE
    /\ pc = [d \in Deliverers |->
               IF d = Tr THEN "idle"
               ELSE IF mode = "queued" THEN "recv" ELSE "none"]
    /\ cur = [d \in Deliverers |-> 0]
    /\ todo = [d \in Deliverers |-> {}]
    /\ hcur = [d \in Deliverers |-> 0]
    /\ reg = [c \in Callers |-> RegIdle]
    /\ removing = {}
    /\ shpc = IF synced THEN "wait" ELSE "none"
    /\ got = [h \in HandlerIds |-> {}]
    /\ synth = [h \in HandlerIds |-> [o \in Objs |-> 0]]
    /\ flags = {}
    /\ owed = {}
    /\ returned = {}
    /\ removal = [h \in HandlerIds |-> [by |-> NoThread, at |-> 0]]
    /\ existing = [h \in HandlerIds |-> [called |-> FALSE, items |-> {}, list |-> {}]]
    /\ atReturn = {}
    /\ deleted = [h \in HandlerIds |-> NoThread]
    /\ errors = {}
    /\ spawned = [h \in HandlerIds |-> 0]
    /\ misdirected = {}
    /\ hkind = [h \in HandlerIds |-> OwnKind]
    /\ routed = [o \in Objs |-> {}]
    /\ accepted = [n \in EventIds |-> 0]
    /\ received = {}
    /\ closes = 0

\* ------------------------------------------------------ sync.RWMutex
\* Lock() first takes the writers' mutex and announces itself, which makes
\* every later RLock() wait, and then waits for the readers to leave.
\* A faulty lock, which lets a writer in whoever holds it
CanAnnounceAlways == TRUE

\* A faulty lock, which lets a writer in among the readers
NoReadersAlways == TRUE

CanAnnounce == wlock = NoThread
CanRLock == wlock = NoThread
NoReaders == readers = {}

\* ------------------------------------------ the mirror and its stream
\* The shared informer updates its store and then queues the notification
\* for the goroutine that runs the federated handler.
Produce(k, o) ==
    /\ ~stopped
    /\ Len(stream) < MaxEvents
    /\ Len(stream) - tpos < MaxLag
    /\ IF k = addEvent THEN o \notin store ELSE o \in store
    /\ store' = IF k = addEvent THEN store \cup {o}
                ELSE IF k = deleteEvent THEN store \ {o} ELSE store
    /\ stream' = Append(stream, [kind |-> k, obj |-> o, typ |-> OwnKind])
    /\ UNCHANGED <<auditVars, mode, stopped, synced, tpos, lockVars, queueVars, delivVars,
                   handlerVars, regVars, histVars, shpc>>

\* The informer's goroutine is given an object that is not of the informer's
\* type (for a delete, possibly inside a DeletedFinalStateUnknown)
ProduceBad(k, o) ==
    /\ ~stopped
    /\ ~Misused
    /\ Cardinality(BadEvents) < MaxBadEvents
    /\ Len(stream) < Min(MaxEvents, MaxBadRunEvents)
    /\ handlerCounter <= MaxBadRunHandlers
    /\ Len(stream) - tpos < MaxLag
    /\ stream' = Append(stream, [kind |-> k, obj |-> o, typ |-> OtherType])
    /\ UNCHANGED <<auditVars, mode, stopped, synced, store, tpos, lockVars, queueVars,
                   delivVars, handlerVars, regVars, histVars, shpc>>

\* close(stopChan)
Stop ==
    /\ ~stopped
    /\ Len(stream) <= MaxStopEvents
    /\ handlerCounter <= MaxStopHandlers
    /\ stopped' = TRUE
    /\ UNCHANGED <<auditVars, mode, synced, store, stream, tpos, lockVars, queueVars, delivVars,
                   handlerVars, regVars, histVars, shpc>>

\* ------------------------------------------------------------- Handler
\* Handler.OnAdd/OnUpdate/OnDelete, lines 36, 42, 48: the load of the tombstone
TombstoneAlive(h) == tombstone[h] = handlerAlive

\* The handlers a caller of WatchFactory.removeHandler has got nil for
removedOK == {h \in HandlerIds : removal[h].by \in Callers}

\* What is noted when a subscriber callback of h starts
Noted(h, n) ==
    flags
    \cup (IF h \in removedOK THEN {<<"late", h>>} ELSE {})
    \cup (IF n > 0 /\ \E j \in got[h] : j >= n THEN {<<"order", h>>} ELSE {})
    \cup (IF n > 0 /\ \E j \in got[h] : j >= n /\ stream[j].obj = stream[n].obj
          THEN {<<"objorder", h>>} ELSE {})

\* A faulty removeHandler, which deletes the entry itself
RegistryAfterRemoveInline(hs, h) == hs \ {h}

\* informer.removeHandler, lines 126-145: the map as the call leaves it (the
\* entry is deleted by the goroutine of lines 133-143, not by the call)
RegistryAfterRemove(hs, h) == hs

\* A faulty kill, which succeeds on a dead handler as well
KillAlways(h) == TRUE

\* Handler.kill, lines 53-58: the compare-and-swap from alive to dead
KillSucceeds(h) == tombstone[h] = handlerAlive

\* informer.removeHandler called by goroutine t for handler h: with the kill
\* done, the goroutine of lines 133-143 is started and nil is returned; else
\* the error of kill is returned
RemoveHandler(t, h) ==
    IF KillSucceeds(h)
    THEN /\ tombstone' = [tombstone EXCEPT ![h] = handlerDead]
         /\ removing' = removing \cup {h}
         /\ spawned' = [spawned EXCEPT ![h] = @ + 1]
         /\ removal' = [removal EXCEPT ![h] =
                          [by |-> t, at |-> IF t \in Deliverers THEN cur[t] ELSE 0]]
         /\ handlers' = RegistryAfterRemove(handlers, h)
         /\ deleted' = IF h \in handlers /\ h \notin RegistryAfterRemove(handlers, h)
                       THEN [deleted EXCEPT ![h] = t] ELSE deleted
         /\ UNCHANGED <<errors, misdirected, hkind, routed, flowVars>>
    ELSE /\ ErrorInBounds
         /\ errors' = errors \cup {<<"AlreadyDead", h>>}
                       \cup (IF h \in handlers THEN {} ELSE {<<"AlreadyDeadAbsent", h>>})
         /\ UNCHANGED <<handlerVars, spawned, misdirected, hkind, routed, flowVars>>

\* ------------------------------------------------ the end of a round
\* Goroutine d is through with one handler and rest are left of its range.
\* With none left the range is over: a worker is back at its select (line
\* 151), forEachHandler runs its deferred i.Unlock() (line 97) and the
\* informer's goroutine takes its next notification.
Resume(d, rest) ==
    LET over == rest = {} IN
    /\ pc' = [pc EXCEPT ![d] = IF ~over THEN "iter"
                               ELSE IF d = Tr THEN "idle" ELSE "recv"]
    /\ hcur' = [hcur EXCEPT ![d] = 0]
    /\ cur' = IF over THEN [cur EXCEPT ![d] = 0] ELSE cur
    /\ tpos' = IF over /\ d = Tr THEN tpos + 1 ELSE tpos
    /\ wlock' = IF over /\ d = Tr THEN NoThread ELSE wlock
    /\ owed' = IF over /\ d = Tr
               THEN owed \cup {<<cur[Tr], h>> :
                                h \in {x \in handlers : tombstone'[x] = handlerAlive}}
               ELSE owed

\* A faulty counter, which hands out the id it handed out last
AddUint64Stuck(counter, delta) == IF counter = 0 THEN delta ELSE counter

\* line 442, atomic.AddUint64(&wf.handlerCounter, 1): the new value, in one
\* step (the bounds of the run keep it far from 2^64)
AddUint64(counter, delta) == counter + delta

\* ------------------------------------------------- WatchFactory.addHandler
\* lines 399-442: the filter is built, the store is listed, processExisting
\* is given the matching items (when it is not nil), the id is allocated.
RegBegin(c, f, pe) ==
    LET h == AddUint64(handlerCounter, 1) IN
    /\ handlerCounter < MaxHandlers
    /\ reg[c].pc = "idle"
    /\ handlerCounter' = h
    /\ hfilter' = [hfilter EXCEPT ![h] = f]
    /\ reg' = [reg EXCEPT ![c] = [pc |-> "insert", h |-> h, left |-> store]]
    /\ existing' = [existing EXCEPT ![h] =
                      [called |-> pe,
                       items |-> IF pe THEN {o \in store : FilterFunc(f, o)} ELSE {},
                       list |-> store]]
    /\ UNCHANGED <<returned, atReturn>>

\* WatchFactory.addHandler called by an application goroutine for type k:
\* without an informer for k the error of line 402 is returned
RegStart(k, f, pe) ==
    /\ FactoryReturned
    /\ IF KnownKind(k)
       THEN /\ RegBegin(App, f, pe)
            /\ hkind' = [hkind EXCEPT ![handlerCounter + 1] = k]
            /\ UNCHANGED errors
       ELSE /\ ErrorInBounds
            /\ errors' = errors \cup {<<"UnknownKind", 0>>}
            /\ UNCHANGED <<regVars, hkind>>
    /\ UNCHANGED <<spawned, misdirected, routed, flowVars, envVars, tpos, lockVars,
                   queueVars,
                   delivVars, handlerVars, histVars, shpc>>

\* informer.addHandler, lines 110-124, under the write lock
DoInsert(c) ==
    /\ handlers' = handlers \cup {reg[c].h}
    /\ reg' = [reg EXCEPT ![c].pc = "synth"]
    /\ UNCHANGED <<auditVars, envVars, tpos, readers, queueVars, delivVars, tombstone,
                   removing, removal, deleted, handlerCounter, hfilter,
                   existing, returned, atReturn, histVars, shpc>>

RegInsert(c) ==
    /\ reg[c].pc = "insert"
    /\ CanAnnounce
    /\ IF NoReaders
       THEN DoInsert(c) /\ UNCHANGED wlock
       ELSE /\ wlock' = c
            /\ reg' = [reg EXCEPT ![c].pc = "pend"]
            /\ UNCHANGED <<auditVars, envVars, tpos, readers, queueVars, delivVars,
                           handlerVars, handlerCounter, hfilter, existing,
                           returned, atReturn, histVars, shpc>>

RegInsertPend(c) ==
    /\ reg[c].pc = "pend"
    /\ NoReaders
    /\ DoInsert(c)
    /\ wlock' = NoThread

\* lines 449-451, handler.OnAdd(obj) for the next of existingItems: the load
\* of the tombstone, the filter, the subscriber's add callback
RegSynth(c) ==
    LET h == reg[c].h IN
    /\ reg[c].pc = "synth"
    /\ \E o \in reg[c].left :
         LET hit == TombstoneAlive(h) /\ FilterFunc(hfilter[h], o) IN
         /\ reg' = [reg EXCEPT ![c].left = reg[c].left \ {o}]
         /\ synth' = IF hit THEN [synth EXCEPT ![h][o] = @ + 1] ELSE synth
         /\ flags' = IF hit THEN Noted(h, 0) ELSE flags
    /\ UNCHANGED <<auditVars, envVars, tpos, lockVars, queueVars, delivVars, handlerVars,
                   handlerCounter, hfilter, existing, returned, atReturn,
                   got, owed, shpc>>

\* line 453: return handler, nil; a callback that registered returns
RegReturn(c) ==
    /\ reg[c].pc = "synth"
    /\ reg[c].left = {}
    /\ returned' = returned \cup {reg[c].h}
    /\ atReturn' = IF TombstoneAlive(reg[c].h)
                   THEN atReturn \cup {reg[c].h} ELSE atReturn
    /\ reg' = [reg EXCEPT ![c] = RegIdle]
    /\ UNCHANGED <<auditVars, envVars, readers, queueVars, todo, handlerVars,
                   handlerCounter, hfilter, existing, got, synth, flags, shpc>>
    /\ IF c \in Deliverers
       THEN Resume(c, todo[c])
       ELSE UNCHANGED <<pc, hcur, cur, tpos, wlock, owed>>

\* WatchFactory.removeHandler, lines 456-461, called by an application
\* goroutine with a handler addHandler has returned
Unregister(h) ==
    /\ h \in returned
    /\ RemoveHandler(App, h)
    /\ UNCHANGED <<envVars, tpos, lockVars, queueVars, delivVars, regVars,
                   histVars, shpc>>

\* WatchFactory.removeHandler called with the type of another informer of the
\* factory: that informer's removeHandler kills the handler, starts its
\* goroutine, which finds no entry in that informer's map, and returns nil
UnregisterOtherKind(h) ==
    /\ h \in returned
    /\ ErrorInBounds
    /\ KillSucceeds(h)
    /\ tombstone' = [tombstone EXCEPT ![h] = handlerDead]
    /\ spawned' = [spawned EXCEPT ![h] = @ + 1]
    /\ removal' = [removal EXCEPT ![h] = [by |-> App, at |-> 0]]
    /\ misdirected' = misdirected \cup {h}
    /\ UNCHANGED <<errors, hkind, routed, flowVars, handlers, removing, deleted, envVars, tpos, lockVars,
                   queueVars, delivVars, regVars, histVars, shpc>>

\* ---------------------- the goroutine of removeHandler, lines 133-143
DoDelete(h) ==
    /\ handlers' = handlers \ {h}
    /\ removing' = removing \ {h}
    /\ deleted' = IF h \in handlers THEN [deleted EXCEPT ![h] = Rm(h)] ELSE deleted
    /\ UNCHANGED <<auditVars, envVars, tpos, readers, queueVars, delivVars, tombstone,
                   removal, regVars, histVars, shpc>>

RmLock(h) ==
    /\ h \in removing
    /\ CanAnnounce
    /\ IF NoReaders
       THEN DoDelete(h) /\ UNCHANGED wlock
       ELSE /\ wlock' = Rm(h)
            /\ UNCHANGED <<auditVars, envVars, tpos, readers, queueVars, delivVars,
                           handlerVars, regVars, histVars, shpc>>

RmPend(h) ==
    /\ wlock = Rm(h)
    /\ NoReaders
    /\ DoDelete(h)
    /\ wlock' = NoThread

\* ----------------------------------- the delivery of one event to one handler
\* forEachHandler line 105 / forEachQueuedHandler line 90: the next handler of
\* the range, and the load of its tombstone in Handler.OnAdd/OnUpdate/OnDelete
Check(d) ==
    /\ pc[d] = "iter"
    /\ UNCHANGED <<auditVars, envVars, readers, queueVars, handlerVars, regVars, got,
                   synth, flags, shpc>>
    /\ \E h \in todo[d] :
         /\ todo' = [todo EXCEPT ![d] = todo[d] \ {h}]
         /\ IF TombstoneAlive(h)
            THEN /\ pc' = [pc EXCEPT ![d] = "call"]
                 /\ hcur' = [hcur EXCEPT ![d] = h]
                 /\ UNCHANGED <<cur, tpos, wlock, owed>>
            ELSE Resume(d, todo[d] \ {h})

\* A faulty handler, which calls the subscriber whatever the filter says
AcceptsAll(d) == TRUE

\* h.base.OnAdd/OnUpdate/OnDelete: whether the filter lets the object through
Accepts(d) == FilterFunc(hfilter[hcur[d]], stream[cur[d]].obj)

\* the subscriber's callback of handler hcur[d] starts
Started(d) ==
    /\ got' = [got EXCEPT ![hcur[d]] = @ \cup {cur[d]}]
    /\ flags' = Noted(hcur[d], cur[d])

\* h.base.OnAdd/OnUpdate/OnDelete: the filter, then the subscriber's callback,
\* which returns without calling back into the factory
Call(d) ==
    /\ pc[d] = "call"
    /\ IF Accepts(d) THEN Started(d) ELSE UNCHANGED <<auditVars, got, flags>>
    /\ UNCHANGED <<auditVars, envVars, readers, queueVars, todo, handlerVars, regVars,
                   synth, shpc>>
    /\ Resume(d, todo[d])

\* ... a callback that removes its own handler before it returns
CallUnregister(d) ==
    /\ pc[d] = "call"
    /\ Accepts(d)
    /\ hcur[d] \in returned
    /\ Started(d)
    /\ RemoveHandler(d, hcur[d])
    /\ UNCHANGED <<envVars, readers, queueVars, todo, regVars, synth, shpc>>
    /\ Resume(d, todo[d])

\* ... a callback that registers another handler of the same informer
CallRegister(d, f, pe) ==
    /\ pc[d] = "call"
    /\ Accepts(d)
    /\ Started(d)
    /\ RegBegin(d, f, pe)
    /\ hkind' = [hkind EXCEPT ![handlerCounter + 1] = OwnKind]
    /\ pc' = [pc EXCEPT ![d] = "incb"]
    /\ hcur' = [hcur EXCEPT ![d] = 0]
    /\ UNCHANGED <<errors, spawned, misdirected, routed, flowVars, envVars, tpos, lockVars, queueVars, cur, todo, handlerVars,
                   synth, owed, shpc>>

\* --------------- newFederatedHandler, lines 239-262, and forEachHandler
\* The informer's goroutine takes the write lock for the whole round, lines
\* 96-97; with an empty map the range is over at once.
\* A notification whose object is of another type: DeleteFunc returns at
\* line 254, before forEachHandler; AddFunc and UpdateFunc call
\* forEachHandler, which returns at line 102 and unlocks.
TrDirectStart ==
    /\ mode = "direct"
    /\ pc[Tr] = "idle"
    /\ tpos < Len(stream)
    /\ (TypeOk(stream[tpos + 1]) \/ stream[tpos + 1].kind # deleteEvent)
          => (CanAnnounce /\ NoReaders)
    /\ IF ~TypeOk(stream[tpos + 1]) \/ handlers = {}
       THEN /\ tpos' = tpos + 1
            /\ UNCHANGED <<wlock, pc, cur, todo>>
       ELSE /\ wlock' = Tr
            /\ pc' = [pc EXCEPT ![Tr] = "iter"]
            /\ cur' = [cur EXCEPT ![Tr] = tpos + 1]
            /\ todo' = [todo EXCEPT ![Tr] = handlers]
            /\ UNCHANGED tpos
    /\ UNCHANGED <<auditVars, envVars, readers, queueVars, hcur, handlerVars, regVars,
                   histVars, shpc>>

\* A faulty send, which never waits for room
RoomAlways(q) == TRUE

\* line 196 on the channel of line 297: the send goes through when the
\* buffer has room
HasRoom(q) == Len(events[q]) < QueueCap

\* ------- newFederatedQueuedHandler, lines 220-237, and enqueueEvent
\* lines 193-201: i.RLock(), the send unless the queues are nil, the deferred
\* RUnlock. With the queue full the send waits, under the read lock. With an
\* object of another type DeleteFunc returns at line 229 and enqueueEvent at
\* line 179, before the lock.
TrEnqueue ==
    LET n == tpos + 1
        q == QueueIdx(stream[n].obj, stream[n].kind) IN
    /\ mode = "queued"
    /\ pc[Tr] = "idle"
    /\ tpos < Len(stream)
    /\ TypeOk(stream[n]) => CanRLock
    /\ IF ~TypeOk(stream[n]) \/ closed
       THEN /\ tpos' = tpos + 1
            /\ UNCHANGED <<readers, pc, cur, events, routed, accepted>>
       ELSE IF HasRoom(q)
       THEN /\ events' = [events EXCEPT ![q] = Append(@, n)]
            /\ routed' = [routed EXCEPT ![stream[n].obj] = @ \cup {q}]
            /\ accepted' = [accepted EXCEPT ![n] = @ + 1]
            /\ tpos' = tpos + 1
            /\ UNCHANGED <<readers, pc, cur>>
       ELSE /\ readers' = readers \cup {Tr}
            /\ pc' = [pc EXCEPT ![Tr] = "send"]
            /\ cur' = [cur EXCEPT ![Tr] = n]
            /\ routed' = [routed EXCEPT ![stream[n].obj] = @ \cup {q}]
            /\ UNCHANGED <<tpos, events, accepted>>
    /\ UNCHANGED <<callVars, received, closes, envVars, wlock, closed, todo, hcur, handlerVars, regVars,
                   histVars, shpc>>

\* line 196: the waiting send goes through, then the deferred RUnlock
TrSend ==
    LET q == QueueIdx(stream[cur[Tr]].obj, stream[cur[Tr]].kind) IN
    /\ pc[Tr] = "send"
    /\ HasRoom(q)
    /\ events' = [events EXCEPT ![q] = Append(@, cur[Tr])]
    /\ accepted' = [accepted EXCEPT ![cur[Tr]] = @ + 1]
    /\ readers' = readers \ {Tr}
    /\ pc' = [pc EXCEPT ![Tr] = "idle"]
    /\ cur' = [cur EXCEPT ![Tr] = 0]
    /\ tpos' = tpos + 1
    /\ UNCHANGED <<callVars, routed, received, closes, envVars, wlock, closed, todo, hcur, handlerVars, regVars,
                   histVars, shpc>>

\* ------------------------------------------ processEvents, lines 148-173
\* case e, ok := <-events with an event in the queue
WRecv(s) ==
    /\ pc[W(s)] = "recv"
    /\ events[s] # <<>>
    /\ cur' = [cur EXCEPT ![W(s)] = Head(events[s])]
    /\ events' = [events EXCEPT ![s] = Tail(@)]
    /\ pc' = [pc EXCEPT ![W(s)] = "snap"]
    /\ received' = received \cup {Head(events[s])}
    /\ UNCHANGED <<callVars, routed, accepted, closes, envVars, tpos, lockVars, closed, todo, hcur, handlerVars,
                   regVars, histVars, shpc>>

\* ... with the queue closed and drained: !ok
WExitClosed(s) ==
    /\ pc[W(s)] = "recv"
    /\ events[s] = <<>>
    /\ closed
    /\ pc' = [pc EXCEPT ![W(s)] = "exit"]
    /\ UNCHANGED <<auditVars, envVars, tpos, lockVars, queueVars, cur, todo, hcur,
                   handlerVars, regVars, histVars, shpc>>

\* case <-stopChan: the select may take it whatever the queue holds
WExitStop(s) ==
    /\ pc[W(s)] = "recv"
    /\ stopped
    /\ pc' = [pc EXCEPT ![W(s)] = "exit"]
    /\ UNCHANGED <<auditVars, envVars, tpos, lockVars, queueVars, cur, todo, hcur,
                   handlerVars, regVars, histVars, shpc>>

\* forEachQueuedHandler, lines 83-88: the copy of the map under the read
\* lock; with an empty copy the range is over at once
WSnap(s) ==
    /\ pc[W(s)] = "snap"
    /\ CanRLock
    /\ IF handlers = {}
       THEN /\ pc' = [pc EXCEPT ![W(s)] = "recv"]
            /\ cur' = [cur EXCEPT ![W(s)] = 0]
            /\ UNCHANGED todo
       ELSE /\ pc' = [pc EXCEPT ![W(s)] = "iter"]
            /\ todo' = [todo EXCEPT ![W(s)] = handlers]
            /\ UNCHANGED cur
    /\ UNCHANGED <<auditVars, envVars, tpos, lockVars, queueVars, hcur, handlerVars,
                   regVars, histVars, shpc>>

\* --------------------------------------- informer.shutdown, lines 264-277
DoShutdown ==
    LET killed == {h \in handlers : tombstone[h] = handlerAlive} IN
    /\ tombstone' = [h \in HandlerIds |->
                       IF h \in killed THEN handlerDead ELSE tombstone[h]]
    /\ removing' = removing \cup killed
    /\ spawned' = [h \in HandlerIds |->
                     IF h \in killed THEN spawned[h] + 1 ELSE spawned[h]]
    /\ removal' = [h \in HandlerIds |->
                     IF h \in killed THEN [by |-> Sh, at |-> 0] ELSE removal[h]]
    /\ handlers' = {h \in handlers :
                      h \notin killed \/ h \in RegistryAfterRemove(handlers, h)}
    /\ deleted' = [h \in HandlerIds |->
                     IF h \in killed /\ h \notin RegistryAfterRemove(handlers, h)
                     THEN Sh ELSE deleted[h]]
    /\ closed' = (mode = "queued")
    /\ closes' = IF mode = "queued" THEN closes + 1 ELSE closes
    /\ shpc' = "done"
    /\ UNCHANGED <<errors, misdirected, hkind, routed, accepted, received, envVars, tpos, readers, events, delivVars, regVars, histVars>>

\* NewWatchFactory, lines 357-364: <-stopChan, then inf.shutdown(): i.Lock()
ShutLock ==
    /\ shpc = "wait"
    /\ stopped
    /\ CanAnnounce
    /\ IF NoReaders
       THEN DoShutdown /\ UNCHANGED wlock
       ELSE /\ wlock' = Sh
            /\ shpc' = "lock"
            /\ UNCHANGED <<auditVars, envVars, tpos, readers, queueVars, delivVars,
                           handlerVars, regVars, histVars>>

ShutPend ==
    /\ shpc = "lock"
    /\ NoReaders
    /\ DoShutdown
    /\ wlock' = NoThread

\* ----------------------------------------------------------- behaviours
Next ==
    \/ \E k \in EventKinds, o \in Objs : Produce(k, o)
    \/ \E k \in EventKinds, o \in Objs : ProduceBad(k, o)
    \/ Stop
    \/ TrDirectStart
    \/ TrEnqueue
    \/ TrSend
    \/ \E s \in UsedQueues : WRecv(s)
    \/ \E s \in UsedQueues : WExitClosed(s)
    \/ \E s \in UsedQueues : WExitStop(s)
    \/ \E s \in UsedQueues : WSnap(s)
    \/ \E d \in Deliverers : Check(d)
    \/ \E d \in Deliverers : Call(d)
    \/ \E d \in Deliverers : CallUnregister(d)
    \/ \E d \in Deliverers, in \in RegInputs(handlerCounter + 1) : CallRegister(d, in.f, in.pe)
    \/ \E in \in AppInputs(handlerCounter + 1) : RegStart(in.k, in.f, in.pe)
    \/ \E c \in Callers : RegInsert(c)
    \/ \E c \in Callers : RegInsertPend(c)
    \/ \E c \in Callers : RegSynth(c)
    \/ \E c \in Callers : RegReturn(c)
    \/ \E h \in HandlerIds : Unregister(h)
    \/ \E h \in HandlerIds : UnregisterOtherKind(h)
    \/ \E h \in HandlerIds : RmLock(h)
    \/ \E h \in HandlerIds : RmPend(h)
    \/ ShutLock
    \/ ShutPend

Spec == Init /\ [][Next]_vars

\* =================================================================== claims
\* What a filter is meant to let through: the namespace, when one is given,
\* equals the object's, and the label, when one is given, is on the object.
Matches(f, o) ==
    /\ (f.ns = NoNs \/ ObjNamespace(o) = f.ns)
    /\ (f.sel = NoSel \/ f.sel \in ObjLabels(o))

\* The objects of a set that a handler's filter is meant to let through
Matching(h, objs) == {o \in objs : Matches(hfilter[h], o)}

\* C1: once removeHandler has returned nil for a handler, no add, update or
\* delete callback of that handler starts any more, events in flight included.
C1_NoCallbackAfterRemoval ==
    \A h \in HandlerIds : <<"late", h>> \notin flags

\* C2: on a queued informer the producer, a worker and a writer of the lock
\* never wait on each other for ever: there is no state in which the producer
\* waits under the read lock for room in a full queue, the worker of that queue
\* waits for the read lock behind a pending writer, and that writer waits for
\* the readers to leave.
C2_NoDeadlock ==
    ~ ( /\ mode = "queued"
        /\ pc[Tr] = "send"
        /\ Tr \in readers
        /\ wlock # NoThread
        /\ \E s \in UsedQueues :
             /\ s = QueueIdx(stream[cur[Tr]].obj, stream[cur[Tr]].kind)
             /\ Len(events[s]) >= QueueCap
             /\ pc[W(s)] = "snap" )

\* C3: on a queued informer the callbacks a handler gets for one object start
\* in the order of that object's notifications in the stream.
C3_PerObjectOrder ==
    mode = "queued" => \A h \in HandlerIds : <<"objorder", h>> \notin flags

C3_Witness ==
    /\ mode = "queued"
    /\ \E h \in HandlerIds : \E i, j \in got[h] :
         /\ i < j
         /\ stream[i].obj = stream[j].obj
         /\ TombstoneAlive(h)

\* C4: on a plain informer a handler that is in the map and alive as the round
\* of a notification ends has got that notification if and only if the object
\* matches its filter; a handler gets no notification whose object does not
\* match; and its callbacks start in the order of the stream.
C4_DirectDelivery ==
    mode = "direct" =>
        /\ \A p \in owed : (p[1] \in got[p[2]]) <=> Matches(hfilter[p[2]], stream[p[1]].obj)
        /\ \A h \in HandlerIds : \A n \in got[h] : Matches(hfilter[h], stream[n].obj)
        /\ \A h \in HandlerIds : <<"order", h>> \notin flags

C4_Witness ==
    /\ mode = "direct"
    /\ \E h \in HandlerIds : \E i, j \in 1 .. Len(stream) :
         /\ hfilter[h] # NoFilter
         /\ <<i, h>> \in owed /\ i \in got[h]
         /\ <<j, h>> \in owed /\ j \notin got[h]

\* C5: while addHandler still has synthetic adds to deliver to the new
\* handler, the handler has got no notification of the stream.
C5_NoLiveBeforeSynthetic ==
    \A c \in Callers :
        ( /\ reg[c].pc \in {"insert", "pend", "synth"}
          /\ TombstoneAlive(reg[c].h)
          /\ Matching(reg[c].h, reg[c].left) # {} )
        => got[reg[c].h] = {}

\* The synthetic adds of h are for objects of the listed mirror that match the
\* filter, one each at most
SyntheticWithin(h) ==
    \A o \in Objs :
        /\ synth[h][o] <= 1
        /\ synth[h][o] = 1 => o \in Matching(h, existing[h].list)

\* ... and for every one of them
SyntheticAll(h) ==
    \A o \in Matching(h, existing[h].list) : synth[h][o] = 1

\* What processExisting was given is what of the listed mirror matches
SnapshotExact(h) ==
    existing[h].called => existing[h].items = Matching(h, existing[h].list)

\* C6, as the specification states it: processExisting is given exactly the
\* objects of the mirror that match the filter, and when addHandler returns
\* the synthetic adds were for exactly these objects, once each.
C6_SnapshotAndSyntheticExact ==
    \A h \in returned : SnapshotExact(h) /\ SyntheticWithin(h) /\ SyntheticAll(h)

\* C6, amended: processExisting is given exactly the objects of the mirror
\* that match the filter; the synthetic adds are for objects of that set only,
\* once each at most; and they are for every object of it when the handler is
\* still alive as addHandler returns, that is unless shutdown has killed the
\* handler during the call.
C6_SnapshotAndSyntheticUnlessShutdown ==
    /\ \A h \in 1 .. handlerCounter : SnapshotExact(h) /\ SyntheticWithin(h)
    /\ \A h \in atReturn : SyntheticAll(h)

C6_Witness ==
    \E h \in returned :
        /\ hfilter[h] # NoFilter
        /\ existing[h].called
        /\ existing[h].list = Objs
        /\ existing[h].items # {} /\ existing[h].items # Objs
        /\ \E o \in Objs : synth[h][o] = 1

\* The callbacks of h so far that were of kind k for object o
Live(h, k, o) ==
    Cardinality({n \in got[h] : stream[n].kind = k /\ stream[n].obj = o})

\* The adds h has got for o, synthetic and live, less the deletes
NetAdds(h, o) == (synth[h][o] + Live(h, addEvent, o)) - Live(h, deleteEvent, o)

\* Nothing is on its way: the stream is handed over, the queues are empty and
\* no goroutine is delivering or registering
Quiescent ==
    /\ tpos = Len(stream)
    /\ \A s \in UsedQueues : events[s] = <<>>
    /\ \A d \in Deliverers : pc[d] \in {"idle", "recv", "none"}
    /\ \A c \in Callers : reg[c].pc = "idle"

\* C7: a handler that addHandler has returned and that is alive has, once
\* nothing is on its way any more, been told of every object of the mirror
\* that matches its filter by one add (synthetic or from the stream, less the
\* deletes): none is missed and none is counted twice.
C7_NoMissNoDoubleCount ==
    Quiescent =>
        \A h \in returned :
            TombstoneAlive(h) =>
                \A o \in Matching(h, store) : NetAdds(h, o) = 1

\* C8: a worker of a queued informer does not exit while its queue still holds
\* an event.
C8_NoEventDiscarded ==
    \A s \in UsedQueues : pc[W(s)] = "exit" => events[s] = <<>>

\* C9: a call of addHandler can always go on to return: it never waits for the
\* write lock while the goroutine that called it holds that lock.
C9_RegisterReturns ==
    \A c \in Callers : reg[c].pc = "insert" => wlock # c

\* C10: removeHandler called from a callback of a round of a plain informer
\* leaves the entry in the map, with its deletion still to be done by the
\* goroutine it spawned, for as long as that round holds the write lock; and
\* no entry is ever deleted by any other goroutine than that one.
C10_RemovalFromCallback ==
    /\ \A h \in HandlerIds : deleted[h] \in {NoThread, Rm(h)}
    /\ \A h \in HandlerIds :
         ( /\ mode = "direct"
           /\ wlock = Tr
           /\ removal[h].by = Tr
           /\ removal[h].at = cur[Tr] )
         => /\ h \in handlers
            /\ h \in removing
            /\ ~TombstoneAlive(h)

C10_Witness ==
    \E h \in HandlerIds :
        /\ mode = "direct"
        /\ wlock = Tr
        /\ removal[h].by = Tr
        /\ removal[h].at = cur[Tr]
        /\ h \in handlers
        /\ pc[Tr] = "iter"

\* C11: of the removal requests for a handler one succeeds, and it is the one
\* that takes the tombstone from alive to dead and starts the one removal
\* goroutine; a request that gets the error of a dead handler finds the
\* tombstone dead and changes nothing; and a dead tombstone stays dead.
C11_OneRemovalSucceeds ==
    /\ [](\A h \in HandlerIds :
            /\ spawned[h] <= 1
            /\ (spawned[h] = 1) <=> ~TombstoneAlive(h)
            /\ <<"AlreadyDead", h>> \in errors => ~TombstoneAlive(h))
    /\ [][ /\ \A h \in HandlerIds : ~TombstoneAlive(h) => ~TombstoneAlive(h)'
           /\ (\E h \in HandlerIds : /\ <<"AlreadyDead", h>> \notin errors
                                     /\ <<"AlreadyDead", h>> \in errors')
              => UNCHANGED <<handlers, tombstone, removing, spawned>> ]_vars

C11_Witness ==
    \E h \in HandlerIds :
        /\ <<"AlreadyDead", h>> \in errors
        /\ spawned[h] = 1
        /\ removal[h].by = App

\* C12: removeHandler for a handler that is not in the map of the informer it
\* names changes nothing and does not return the error of a dead handler: no
\* handler is killed through an informer that does not hold it, and the error
\* of a dead handler is returned only for a handler that is still in the map.
C12_UnknownHandlerUntouched ==
    /\ misdirected = {}
    /\ \A h \in HandlerIds : <<"AlreadyDeadAbsent", h>> \notin errors

\* C13: addHandler for a type without informer returns its error and changes
\* nothing: no map, tombstone or counter changes, processExisting and the
\* callbacks are not called; and no handler id is ever allocated for such a type.
C13_UnknownKindNoEffect ==
    /\ [](\A h \in 1 .. handlerCounter : hkind[h] = OwnKind)
    /\ [][ (<<"UnknownKind", 0>> \notin errors /\ <<"UnknownKind", 0>> \in errors')
           => UNCHANGED <<handlers, tombstone, removing, handlerCounter, reg,
                          hfilter, existing, returned, got, synth, events>> ]_vars

C13_Witness ==
    /\ <<"UnknownKind", 0>> \in errors
    /\ handlerCounter = 1
    /\ handlers = {1}

\* C14: the queue of an event is a function of the namespace and name of its
\* object alone: all the adds, updates and deletes of one object are sent to
\* one of the numEventQueues queues, also when the object is deleted and
\* added again, whatever the kind of the event and whatever the handlers
\* registered; and every event in a queue is in the queue of its object.
C14_OneShardPerObject ==
    /\ \A o \in Objs :
          /\ routed[o] \subseteq Queues
          /\ Cardinality(routed[o]) <= 1
    /\ \A s \in UsedQueues : \A i \in 1 .. Len(events[s]) :
          routed[stream[events[s][i]].obj] = {s}

C14_Witness ==
    \E o \in Objs : \E n1, n2 \in 1 .. tpos :
        /\ n1 < n2
        /\ stream[n1].obj = o /\ stream[n1].kind = deleteEvent
        /\ stream[n2].obj = o /\ stream[n2].kind = addEvent
        /\ routed[o] # {}
        /\ handlers # {}
        /\ ~closed

\* C15: once stopChan is closed the shutdown goroutine can always go on to
\* finish informer.shutdown: there is no state in which it has not finished
\* while the producer waits, under the read lock, for room in a full queue
\* whose worker has already returned from processEvents.
C15_ShutdownCompletes ==
    ~ ( /\ stopped
        /\ shpc # "done"
        /\ pc[Tr] = "send"
        /\ Tr \in readers
        /\ \E s \in UsedQueues :
             /\ s = QueueIdx(stream[cur[Tr]].obj, stream[cur[Tr]].kind)
             /\ Len(events[s]) >= QueueCap
             /\ pc[W(s)] = "exit" )

\* C16: when WaitForCacheSync reports an informer as not synced,
\* NewWatchFactory returns its error and no factory: no handler is ever
\* registered, no id is allocated, no call of addHandler or removeHandler is
\* made, and the shutdown goroutine does not exist; that goroutine exists
\* only when the informer has synced.
C16_NoPartialInit ==
    /\ ~synced => /\ handlerCounter = 0
                  /\ handlers = {}
                  /\ returned = {}
                  /\ errors = {}
                  /\ \A c \in Callers : reg[c].pc = "idle"
                  /\ shpc = "none"
                  /\ ~closed
    /\ shpc # "none" => synced

C16_Witness ==
    /\ ~synced
    /\ stopped
    /\ tpos >= 1

\* The handlers informer.addHandler has put in the map at some time
Inserted ==
    {h \in 1 .. handlerCounter :
        \A c \in Callers : reg[c].h = h => reg[c].pc \notin {"insert", "pend"}}

\* C17: an entry leaves the map only in a step of the goroutine removeHandler
\* started for it, with its tombstone already dead; so a handler that was put
\* in the map and is alive is in the map, and neither a delivery, nor
\* addHandler, nor the call of removeHandler, nor shutdown deletes an entry.
C17_OnlyAsyncDeletes ==
    /\ [](\A h \in Inserted : TombstoneAlive(h) => h \in handlers)
    /\ [][ \A h \in HandlerIds :
             (h \in handlers /\ h \notin handlers')
             => /\ ~TombstoneAlive(h)
                /\ h \in removing /\ h \notin removing'
                /\ spawned[h] = 1
                /\ deleted'[h] = Rm(h)
                /\ UNCHANGED <<tombstone, pc, reg, shpc, events, closed>> ]_vars

C17_Witness ==
    \E h1, h2 \in HandlerIds :
        /\ deleted[h1] = Rm(h1)
        /\ h1 \notin handlers
        /\ h2 \in handlers
        /\ TombstoneAlive(h2)
        /\ h2 \in returned

\* C18: the goroutine removeHandler starts for a killed handler can always go
\* on to delete the entry from the map: there is no state in which the entry
\* of a killed handler is still in the map, its goroutine has not run, and
\* the write lock can never be had, because the producer waits under the read
\* lock for room in a full queue whose worker has returned or itself waits
\* for the read lock behind a pending writer.
C18_RemovalCompletes ==
    ~ \E h \in HandlerIds :
        /\ removal[h].by # NoThread
        /\ h \in handlers
        /\ h \in removing
        /\ pc[Tr] = "send"
        /\ Tr \in readers
        /\ \E s \in UsedQueues :
             /\ s = QueueIdx(stream[cur[Tr]].obj, stream[cur[Tr]].kind)
             /\ Len(events[s]) >= QueueCap
             /\ \/ pc[W(s)] = "exit"
                \/ pc[W(s)] = "snap" /\ wlock # NoThread

\* The notifications in the queues
Queued == UNION {{events[s][i] : i \in 1 .. Len(events[s])} : s \in Queues}

\* C19: a queue never holds more than QueueCap = 1 event; the producer that
\* finds its queue full waits, with the event in hand and nothing dropped or
\* overwritten; and until shutdown closes the queues every notification the
\* informer's goroutine has handed to enqueueEvent has been put in the queue
\* of its object exactly once, where it stays until the worker takes it.
C19_BoundedQueueNoLoss ==
    /\ \A s \in Queues : Len(events[s]) <= QueueCap
    /\ \A n \in EventIds : accepted[n] <= 1
    /\ mode = "queued" =>
         /\ \A n \in 1 .. Len(stream) :
              /\ (n <= tpos /\ ~closed /\ n \notin BadEvents) => accepted[n] = 1
              /\ n > tpos => accepted[n] = 0
              /\ accepted[n] = 1 <=> (n \in Queued \/ n \in received)
              /\ ~(n \in Queued /\ n \in received)
         /\ pc[Tr] = "send" => cur[Tr] = tpos + 1

C19_Witness ==
    /\ pc[Tr] = "send"
    /\ ~closed
    /\ ~stopped
    /\ tpos >= 1
    /\ accepted[tpos] = 1
    /\ accepted[cur[Tr]] = 0
    /\ events[QueueIdx(stream[cur[Tr]].obj, stream[cur[Tr]].kind)] = <<tpos>>

\* C20: a notification whose object is not of the informer's type (for a
\* delete, also inside a DeletedFinalStateUnknown) is dropped by the
\* informer's goroutine alone: no callback of any handler gets it, it is put
\* in no queue and kept by no goroutine, the step that drops it leaves the
\* map, the tombstones, the lock and the queues as they were, and the
\* notifications of the right type after it are delivered as ever: on a plain
\* informer to every handler alive in the map at the end of the round whose
\* filter the object matches, on a queued informer into the queue.
C20_WrongTypeDropped ==
    /\ [](/\ \A h \in HandlerIds : got[h] \cap BadEvents = {}
          /\ \A n \in BadEvents :
               /\ accepted[n] = 0
               /\ n \notin Queued \cup received
               /\ \A d \in Deliverers : cur[d] # n
               /\ \A h \in HandlerIds : <<n, h>> \notin owed
          /\ \A n \in 1 .. tpos : n \notin BadEvents =>
               /\ mode = "direct" =>
                    \A h \in HandlerIds : <<n, h>> \in owed =>
                        (n \in got[h] <=> Matches(hfilter[h], stream[n].obj))
               /\ (mode = "queued" /\ ~closed) => accepted[n] = 1)
    /\ [][ (tpos' = tpos + 1 /\ (tpos + 1) \in BadEvents)
           => UNCHANGED <<handlers, tombstone, removing, wlock, readers, events,
                          closed, pc, cur, todo, hcur, reg, got, synth,
                          handlerCounter, routed, accepted, received>> ]_vars

C20_Witness ==
    \E m, n \in 1 .. tpos : \E h \in HandlerIds :
        /\ m < n
        /\ m \in BadEvents
        /\ n \notin BadEvents
        /\ got[h] = {n}
        /\ hfilter[h] # NoFilter
        /\ TombstoneAlive(h)
        /\ h \in handlers

\* The informer's goroutine is in a round of forEachHandler
InRound == pc[Tr] \in {"iter", "call", "incb"}

\* C21: on a plain informer the informer's goroutine holds the write lock for
\* the whole of a round, from before the check of the type to its return
\* after the last handler: no other goroutine delivers, so there is one round
\* at a time; the map is the same at every step taken while the lock is
\* held; and the insertion of an addHandler call and the deletion of a
\* removal goroutine are not done before the round is over.
C21_RoundUnderWriteLock ==
    /\ [](mode = "direct" =>
            /\ InRound <=> wlock = Tr
            /\ InRound => /\ cur[Tr] = tpos + 1
                          /\ readers = {}
            /\ \A d \in Workers : pc[d] = "none" /\ cur[d] = 0)
    /\ [][ (mode = "direct" /\ wlock = Tr)
           => /\ handlers' = handlers
              /\ removing \subseteq removing'
              /\ \A c \in Callers : reg[c].pc \in {"insert", "pend"}
                                    => reg'[c] = reg[c]
              /\ wlock' \in {Tr, NoThread}
              /\ wlock' = NoThread => tpos' = tpos + 1 ]_vars

C21_Witness ==
    \E h \in HandlerIds :
        /\ mode = "direct"
        /\ wlock = Tr
        /\ pc[Tr] = "iter"
        /\ h \in handlers
        /\ h \in removing
        /\ removal[h].by = App
        /\ reg[App].pc = "insert"

\* The ids handed out so far that some part of the state still knows of
KnownIds ==
    handlers \cup returned \cup removing
    \cup {reg[c].h : c \in {x \in Callers : reg[x].pc # "idle"}}
    \cup {h \in HandlerIds : ~TombstoneAlive(h) \/ deleted[h] # NoThread}

\* C22: the ids of the handlers of a factory are all different and grow with
\* the order of their allocation: two addHandler calls under way never have
\* one id, the id a call is given is greater than every id given before, it
\* is the id of no handler that is or ever was in the map, killed or
\* returned, and the entry a call puts in the map replaces no other.
C22_UniqueIncreasingIds ==
    /\ [](/\ \A c1, c2 \in Callers :
               (c1 # c2 /\ reg[c1].pc # "idle" /\ reg[c2].pc # "idle")
               => reg[c1].h # reg[c2].h
          /\ \A h \in KnownIds : 1 <= h /\ h <= handlerCounter
          /\ \A c \in Callers : reg[c].pc \in {"insert", "pend"}
               => /\ reg[c].h \notin handlers \cup returned \cup removing
                  /\ TombstoneAlive(reg[c].h)
                  /\ deleted[reg[c].h] = NoThread)
    /\ [][ /\ handlerCounter' >= handlerCounter
           /\ \A c \in Callers :
                (reg[c].pc = "idle" /\ reg'[c].pc # "idle")
                => /\ reg'[c].h = handlerCounter'
                   /\ handlerCounter' > handlerCounter
                   /\ \A h \in KnownIds : reg'[c].h > h ]_vars

C22_Witness ==
    \E d \in Deliverers :
        /\ reg[App].pc # "idle"
        /\ reg[d].pc # "idle"
        /\ reg[App].h < reg[d].h

\* C23: on a queued informer enqueueEvent and shutdown exclude each other by
\* the lock: the queues are closed once, and never while the producer waits
\* in a send; a notification is put in a queue only while the queues are
\* open; and enqueueEvent called once the queues are closed returns at once,
\* without waiting, with nothing put in a queue.
C23_NoSendOnClosed ==
    /\ [](/\ closes <= 1
          /\ closed <=> (closes = 1)
          /\ closed => /\ mode = "queued"
                       /\ shpc = "done"
                       /\ pc[Tr] # "send"
                       /\ Tr \notin readers)
    /\ [][ /\ (accepted' # accepted \/ \E s \in Queues : Len(events'[s]) > Len(events[s]))
              => (~closed /\ ~closed')
           /\ closed => (closed' /\ closes' = closes)
           /\ (closed /\ tpos' = tpos + 1)
              => UNCHANGED <<events, accepted, routed, pc, cur, readers, wlock, got>> ]_vars

C23_Witness ==
    /\ mode = "queued"
    /\ closed
    /\ tpos >= 2
    /\ tpos \notin BadEvents
    /\ accepted[tpos] = 0
    /\ accepted[tpos - 1] = 1

====
